---- MODULE Spec2Model ----
(***************************************************************************)
(* glance/common/flags.py: FlagValues, the gflags registry extension that  *)
(* tolerates undefined flags and replays the stored command line for flags *)
(* defined after the first parse.                                          *)
(*                                                                         *)
(* A command-line token is a record: Opt(n, s) is the text "--n=s",        *)
(* Arg(t) is the non-option text t.  The base class gflags.FlagValues and  *)
(* the getopt module are the libraries the source calls; their operators   *)
(* below follow the calls the source makes to them.                        *)
(***************************************************************************)
EXTENDS Integers, Sequences, FiniteSets, TLC

\* ------------------------------------------------------------- bounds
\* Longest command line, not counting the program name.
MaxArgs == 2
\* Longest command line that names no flag but future.
MaxLongArgs == 3
\* Longest command line of the program that calls the dirty-list methods.
MaxShortArgs == 1
\* Longest dirty list that program builds.
MaxDirty == 2

\* ------------------------------------------------------------- tokens
Opt(n, s) == [kind |-> "opt", name |-> n, val |-> s]
Arg(t) == [kind |-> "arg", name |-> t, val |-> ""]

\* verbose is the boolean flag the module itself defines when it is loaded;
\* future and other are integer flags that other modules define when they
\* are loaded, before or after the command line is parsed.
LateNames == {"future", "other"}
FlagNames == {"verbose"} \cup LateNames
FlagType(n) == IF n = "verbose" THEN "bool" ELSE "int"
\* The command lines spell verbose as true, future as 2, and other as a text
\* that IntegerParser rejects.
\* The default a flag is defined with: False, or the integer 0.
Default == 0
ProgName == Arg("prog")
Tokens ==
    {Opt("verbose", "1"), Opt("future", "2"), Opt("other", "x"),
     Arg("extra1")}

RECURSIVE SeqsUpTo(_, _)
SeqsUpTo(S, k) ==
    IF k = 0 THEN {<<>>}
    ELSE LET shorter == SeqsUpTo(S, k - 1)
         IN shorter \cup {Append(s, x) : s \in shorter, x \in S}

\* Every argv the application may pass: the program name, then the tokens.
Argvs == {<<ProgName>> \o s : s \in SeqsUpTo(Tokens, MaxArgs)}

\* The longer command lines: future spelled as 1 or 2, and the positional
\* argument.
LongTokens == {Opt("future", "1"), Opt("future", "2"), Arg("extra1")}
LongArgvs == {<<ProgName>> \o s : s \in SeqsUpTo(LongTokens, MaxLongArgs)}

\* The shorter command lines.
ShortArgvs == {<<ProgName>> \o s : s \in SeqsUpTo(Tokens, MaxShortArgs)}

\* ------------------------------------------------------- python lists
\* a[:1]
First1(a) == IF a = <<>> THEN <<>> ELSE <<a[1]>>
\* a[1:]
Rest(a) == IF a = <<>> THEN <<>> ELSE Tail(a)
\* a[-k:] for k >= 1
LastK(a, k) == IF k >= Len(a) THEN a ELSE SubSeq(a, Len(a) - k + 1, Len(a))
\* a[0:i] + a[i+1:] with the 1-based index i
RemoveAt(a, i) == SubSeq(a, 1, i - 1) \o SubSeq(a, i + 1, Len(a))
\* x in a
InList(x, a) == \E i \in 1..Len(a) : a[i] = x

\* ------------------------------------------------------------- getopt
\* getopt.getopt / getopt.gnu_getopt with no short options: the option
\* pairs and the leftover arguments, or the name getopt does not recognize.
RECURSIVE do_getopt(_, _, _, _, _)
do_getopt(args, longopts, gnu, opts, prog_args) ==
    IF args = <<>>
    THEN [opt |-> "", optlist |-> opts, unparsed_args |-> prog_args]
    ELSE LET a == Head(args)
         IN IF a.kind = "arg"
            THEN IF gnu
                 THEN do_getopt(Tail(args), longopts, gnu, opts,
                                Append(prog_args, a))
                 ELSE [opt |-> "", optlist |-> opts, unparsed_args |-> args]
            ELSE IF a.name \in longopts
                 THEN do_getopt(Tail(args), longopts, gnu,
                                Append(opts, <<a.name, a.val>>), prog_args)
                 ELSE [opt |-> a.name, optlist |-> <<>>,
                       unparsed_args |-> <<>>]

orig_getopt(args, longopts, gnu) == do_getopt(args, longopts, gnu, <<>>, <<>>)

\* The interception wrapper: what the original returns, its leftover
\* arguments stored in the side channel when the original returns at all.
_sneaky(args, longopts, gnu, sneaky_unparsed_args) ==
    LET r == orig_getopt(args, longopts, gnu)
    IN [result |-> r,
        sneaky_unparsed_args |->
            IF r.opt = "" THEN [value |-> r.unparsed_args, set |-> TRUE]
            ELSE sneaky_unparsed_args]

\* ------------------------------------------ the getopt module's attributes
\* The function objects an attribute of the getopt module may hold.
Original == "original"
Sneaky == "_sneaky"
GetoptAttrs == {"getopt", "gnu_getopt"}
NoCapture == [value |-> <<>>, set |-> FALSE]

\* A call of the function the attribute currently holds.
call_getopt(fn, args, longopts, gnu, sneaky_unparsed_args) ==
    IF fn = Sneaky
    THEN _sneaky(args, longopts, gnu, sneaky_unparsed_args)
    ELSE [result |-> orig_getopt(args, longopts, gnu),
          sneaky_unparsed_args |-> sneaky_unparsed_args]

\* ------------------------------------------------- gflags.FlagValues
\* BooleanParser.Parse and IntegerParser.Parse, by the flag's type: the
\* value of the text, or ValueError.  True is 1 and False is 0.
ParserParse(type, s) ==
    IF type = "bool"
    THEN IF s \in {"true", "t", "1"} THEN [ok |-> TRUE, value |-> 1]
         ELSE IF s \in {"false", "f", "0"} THEN [ok |-> TRUE, value |-> 0]
         ELSE [ok |-> FALSE, value |-> Default]
    ELSE IF s = "0" THEN [ok |-> TRUE, value |-> 0]
         ELSE IF s = "1" THEN [ok |-> TRUE, value |-> 1]
         ELSE IF s = "2" THEN [ok |-> TRUE, value |-> 2]
         ELSE [ok |-> FALSE, value |-> Default]

\* The index of the first argument that spells the option getopt rejected.
FirstSpelling(args, opt) ==
    CHOOSE i \in 1..Len(args) :
        /\ args[i].kind = "opt" /\ args[i].name = opt
        /\ \A j \in 1..(i - 1) : ~(args[j].kind = "opt" /\ args[j].name = opt)

\* The base parser's loop: call getopt, drop the option it rejects, again.
RECURSIVE getopt_loop(_, _, _, _, _, _)
\* One turn of the loop, c what the getopt call gave.
getopt_turn(args, fl, gnu, fn, unrecognized_opts, c) ==
    IF c.result.opt = ""
    THEN [optlist |-> c.result.optlist,
          unparsed_args |-> c.result.unparsed_args,
          unrecognized_opts |-> unrecognized_opts,
          sneaky_unparsed_args |-> c.sneaky_unparsed_args]
    ELSE getopt_loop(RemoveAt(args, FirstSpelling(args, c.result.opt)),
                     fl, gnu, fn,
                     Append(unrecognized_opts,
                            args[FirstSpelling(args, c.result.opt)]),
                     c.sneaky_unparsed_args)

getopt_loop(args, fl, gnu, fn, unrecognized_opts, sneaky_unparsed_args) ==
    getopt_turn(args, fl, gnu, fn, unrecognized_opts,
                call_getopt(fn, args, DOMAIN fl \cup {"undefok"}, gnu,
                            sneaky_unparsed_args))

\* flag.Parse(arg) for each recognized option in turn; the first text the
\* flag's parser rejects raises, and the values set before it stay set.
RECURSIVE parse_optlist(_, _)
parse_optlist(optlist, fl) ==
    IF optlist = <<>> THEN [exc |-> "", fl |-> fl]
    ELSE LET name == Head(optlist)[1]
             p == ParserParse(FlagType(name), Head(optlist)[2])
         IN IF name \notin DOMAIN fl THEN parse_optlist(Tail(optlist), fl)
            ELSE IF ~p.ok THEN [exc |-> "IllegalFlagValue", fl |-> fl]
            ELSE parse_optlist(Tail(optlist), [fl EXCEPT ![name] = p.value])

\* The end of the base parser: the error it raises, or the arguments it
\* returns, lp what the loop gave and pf what the flags' parsers gave.
gflags_return(gnu, argv, lp, pf) ==
    LET original_argv == argv
        exc == IF pf.exc # "" THEN pf.exc
               ELSE IF lp.unrecognized_opts # <<>> THEN "UnrecognizedFlagError"
               ELSE ""
    IN [exc |-> exc,
        fl |-> pf.fl,
        sneaky_unparsed_args |-> lp.sneaky_unparsed_args,
        args |->
            IF exc # "" THEN <<>>
            ELSE IF lp.unparsed_args # <<>>
                 THEN IF gnu THEN First1(argv) \o lp.unparsed_args
                      ELSE First1(argv)
                               \o LastK(original_argv, Len(lp.unparsed_args))
                 ELSE First1(argv)]

\* The base parser after its loop: the recognized options parsed in turn.
gflags_parse(fl, gnu, argv, lp) ==
    gflags_return(gnu, argv, lp, parse_optlist(lp.optlist, fl))

\* gflags.FlagValues.__call__(self, argv): it looks the tokenizer up in
\* the getopt module at the time of the call.
gflags_call(fl, gnu, argv, getopt, sneaky_unparsed_args) ==
    gflags_parse(fl, gnu, argv,
                 getopt_loop(Rest(argv), fl, gnu,
                             IF gnu THEN getopt["gnu_getopt"]
                             ELSE getopt["getopt"],
                             <<>>, sneaky_unparsed_args))

\* gflags.FlagValues.__setitem__: a name already registered raises.
gflags_setitem(fl, name, value) ==
    IF name \in DOMAIN fl THEN [exc |-> "DuplicateFlag", fl |-> fl]
    ELSE [exc |-> "",
          fl |-> [n \in DOMAIN fl \cup {name} |->
                     IF n = name THEN value ELSE fl[n]]]

\* gflags.FlagValues.__getattr__ / __getitem__: the flag's value, or the
\* error of a name that is not registered.
gflags_get(fl, name, missing) ==
    IF name \in DOMAIN fl THEN [exc |-> "", value |-> fl[name]]
    ELSE [exc |-> missing, value |-> Default]

\* gflags.FlagValues.__setattr__: fl[name].value = value, KeyError on a name
\* that is not registered.
gflags_setattr(fl, name, value) ==
    IF name \in DOMAIN fl THEN [exc |-> "", fl |-> [fl EXCEPT ![name] = value]]
    ELSE [exc |-> "KeyError", fl |-> fl]

\* --------------------------------------------------- class FlagValues
NoFlags == [n \in {} |-> Default]

\* FlagValues.__init__
FlagValues ==
    [flags |-> NoFlags,
     use_gnu_getopt |-> FALSE,
     dirty |-> <<>>,
     is_dirty |-> [set |-> FALSE, value |-> <<>>],
     was_already_parsed |-> FALSE,
     stored_argv |-> <<>>]

SetDirty(self, name) == [self EXCEPT !.dirty = Append(self.dirty, name)]

IsDirty(self, name) == InList(name, self.dirty)

ClearDirty(self) == [self EXCEPT !.is_dirty = [set |-> TRUE, value |-> <<>>]]

WasAlreadyParsed(self) == self.was_already_parsed

IsGnuGetOpt(self) == self.use_gnu_getopt

\* Mutant of Swallowed: the except clause catches every error.
Swallowed_everything(exc) == TRUE

\* Mutant of Swallowed: the except clause names another error class.
Swallowed_nothing(exc) == FALSE

\* The except clause of __call__: the errors it catches.
Swallowed(exc) == exc = "UnrecognizedFlagError"

\* Mutant of except_args: the side channel is never consulted.
except_args_no_leftover(self, argv, original_argv, sneaky_unparsed_args) ==
    First1(argv)

\* The body of the except clause: the leftover arguments rebuilt from the
\* side channel.
except_args(self, argv, original_argv, sneaky_unparsed_args) ==
    LET unparsed_args == sneaky_unparsed_args.value
    IN IF sneaky_unparsed_args.set /\ unparsed_args # <<>>
       THEN IF IsGnuGetOpt(self) THEN First1(argv) \o unparsed_args
            ELSE First1(argv) \o LastK(original_argv, Len(unparsed_args))
       ELSE First1(argv)

\* Mutant of finally_setattr: the attribute restored is always getopt.getopt.
finally_setattr_getopt(getopt, orig_name, orig_fn) ==
    [getopt EXCEPT !["getopt"] = orig_fn]

\* The finally clause of __call__.
finally_setattr(getopt, orig_name, orig_fn) ==
    [getopt EXCEPT ![orig_name] = orig_fn]

\* Mutant of store_argv: the registry is never marked parsed.
store_argv_unmarked(self, original_argv) ==
    ClearDirty([self EXCEPT !.stored_argv = original_argv])

\* Mutant of store_argv: the argv is stored by the first Parse alone.
store_argv_once(self, original_argv) ==
    ClearDirty([self EXCEPT
        !.stored_argv = IF self.was_already_parsed THEN self.stored_argv
                        ELSE original_argv,
        !.was_already_parsed = TRUE])

\* The end of __call__, reached when no error propagates: the argv stored,
\* the registry marked parsed, ClearDirty called.
store_argv(self, original_argv) ==
    ClearDirty([self EXCEPT !.stored_argv = original_argv,
                            !.was_already_parsed = TRUE])

\* Lines 55-60 of __call__: the attribute of the getopt module to patch.
orig_name(self) == IF IsGnuGetOpt(self) THEN "gnu_getopt" ELSE "getopt"

\* __call__ from the return of the base parser on, b what it gave and
\* patched the getopt module as the try clause patched it.
after_base_call(self, getopt, argv, patched, b) ==
    LET original_argv == argv
        parsed == [self EXCEPT !.flags = b.fl]
        restored == finally_setattr(patched, orig_name(self),
                                    getopt[orig_name(self)])
    IN IF b.exc = ""
       THEN [exc |-> "", base_exc |-> b.exc, args |-> b.args,
             getopt |-> restored, self |-> store_argv(parsed, original_argv)]
       ELSE IF Swallowed(b.exc)
       THEN [exc |-> "", base_exc |-> b.exc,
             args |-> except_args(self, argv, original_argv,
                                  b.sneaky_unparsed_args),
             getopt |-> restored, self |-> store_argv(parsed, original_argv)]
       ELSE [exc |-> b.exc, base_exc |-> b.exc, args |-> <<>>,
             getopt |-> restored, self |-> parsed]

\* The try clause of __call__: the tokenizer patched, the base parser called.
try_base_call(self, getopt, argv, patched) ==
    after_base_call(self, getopt, argv, patched,
                    gflags_call(self.flags, self.use_gnu_getopt, argv, patched,
                                NoCapture))

\* FlagValues.__call__(self, argv) with the getopt module as it is at the
\* call: the registry and the getopt module afterwards, and what the call
\* returns or raises.
__call__(self, getopt, argv) ==
    try_base_call(self, getopt, argv,
                  [getopt EXCEPT ![orig_name(self)] = Sneaky])

\* Mutant of __setitem__: the name is marked dirty whether or not the
\* registry was parsed.
setitem_always_dirty(self, name, flag) ==
    IF gflags_setitem(self.flags, name, flag).exc # ""
    THEN [exc |-> gflags_setitem(self.flags, name, flag).exc, self |-> self]
    ELSE [exc |-> "",
          self |-> SetDirty([self EXCEPT
                       !.flags = gflags_setitem(self.flags, name, flag).fl],
                       name)]

\* FlagValues.__setitem__(self, name, flag)
__setitem__(self, name, flag) ==
    LET r == gflags_setitem(self.flags, name, flag)
        set == [self EXCEPT !.flags = r.fl]
    IN IF r.exc # "" THEN [exc |-> r.exc, self |-> self]
       ELSE [exc |-> "",
             self |-> IF WasAlreadyParsed(set) THEN SetDirty(set, name) ELSE set]

\* Mutant of copy_dirty: every flag of the live registry is copied.
copy_every_flag(self, ks, new_flags) ==
    [exc |-> "", new_flags |-> [new_flags EXCEPT !.flags = self.flags]]

\* The first loop of ParseNewFlags: new_flags[k] = self[k] for each dirty k,
\* through the base class's __getitem__ (KeyError on a name not registered).
RECURSIVE copy_dirty(_, _, _)
copy_dirty(self, ks, new_flags) ==
    IF ks = <<>> THEN [exc |-> "", new_flags |-> new_flags]
    ELSE LET g == gflags_get(self.flags, Head(ks), "KeyError")
             r == __setitem__(new_flags, Head(ks), g.value)
         IN IF g.exc # "" THEN [exc |-> g.exc, new_flags |-> new_flags]
            ELSE IF r.exc # "" THEN [exc |-> r.exc, new_flags |-> new_flags]
            ELSE copy_dirty(self, Tail(ks), r.self)

\* The Flag objects are shared by both registries: a value the sub-registry's
\* parse sets is the live flag's value.
SharedFlags(fl, sub) ==
    [n \in DOMAIN fl |-> IF n \in DOMAIN sub THEN sub[n] ELSE fl[n]]

\* Mutant of copy_back: every dirty flag is given the first dirty flag's value.
copy_back_first(fl, ks, new_fl) ==
    [n \in DOMAIN fl |-> IF InList(n, ks) THEN new_fl[Head(ks)] ELSE fl[n]]

\* The second loop of ParseNewFlags: setattr(self, k, getattr(new_flags, k)).
RECURSIVE copy_back(_, _, _)
copy_back(fl, ks, new_fl) ==
    IF ks = <<>> THEN fl
    ELSE copy_back([fl EXCEPT ![Head(ks)] = new_fl[Head(ks)]], Tail(ks), new_fl)

\* ParseNewFlags from the return of new_flags(stored_argv) on, c what the
\* call gave.
after_replay(self, c) ==
    LET shared == [self EXCEPT !.flags = SharedFlags(self.flags, c.self.flags)]
    IN IF c.exc # ""
       THEN [exc |-> c.exc, self |-> shared, getopt |-> c.getopt,
             argv |-> self.stored_argv]
       ELSE [exc |-> "",
             self |-> ClearDirty([shared EXCEPT !.flags =
                          copy_back(shared.flags, self.dirty, c.self.flags)]),
             getopt |-> c.getopt, argv |-> self.stored_argv]

\* ParseNewFlags from the end of its first loop on, cp what the loop gave.
replay(self, getopt, cp) ==
    IF cp.exc # ""
    THEN [exc |-> cp.exc, self |-> self, getopt |-> getopt, argv |-> <<>>]
    ELSE after_replay(self, __call__(cp.new_flags, getopt, self.stored_argv))

\* FlagValues.ParseNewFlags(self)
ParseNewFlags(self, getopt) ==
    replay(self, getopt, copy_dirty(self, self.dirty, FlagValues))

\* A read after the replay, p what the replay gave.
get_value(self, name, missing, p) ==
    LET g == gflags_get(p.self.flags, name, missing)
    IN [exc |-> IF p.exc # "" THEN p.exc ELSE g.exc,
        value |-> IF p.exc # "" THEN Default ELSE g.value,
        self |-> p.self, getopt |-> p.getopt,
        replayed |-> IsDirty(self, name), argv |-> p.argv]

\* FlagValues.__getitem__ (missing = "KeyError") and __getattr__ (missing =
\* "AttributeError"): a replay first when the name is dirty.
get(self, getopt, name, missing) ==
    get_value(self, name, missing,
              IF IsDirty(self, name) THEN ParseNewFlags(self, getopt)
              ELSE [exc |-> "", self |-> self, getopt |-> getopt,
                    argv |-> <<>>])

__getitem__(self, getopt, name) == get(self, getopt, name, "KeyError")

__getattr__(self, getopt, name) == get(self, getopt, name, "AttributeError")

\* ------------------------------------------------------------ DECLARE
\* The module that defines future when it is imported.
Modules == {"glance.future"}
ModuleFlags(module_string) == <<"future">>

\* __import__(module_string): the module's DEFINE calls in turn; an error
\* leaves the flags defined before it and the module not in sys.modules.
RECURSIVE import_defines(_, _)
import_defines(self, names) ==
    IF names = <<>> THEN [exc |-> "", self |-> self]
    ELSE LET r == __setitem__(self, Head(names), Default)
         IN IF r.exc # "" THEN r ELSE import_defines(r.self, Tail(names))

\* Mutant of DECLARE: the name is looked up before the module is imported.
DECLARE_before_import(name, module_string, flag_values, modules) ==
    LET imp == IF module_string \notin modules
               THEN import_defines(flag_values, ModuleFlags(module_string))
               ELSE [exc |-> "", self |-> flag_values]
    IN IF imp.exc # ""
       THEN [exc |-> imp.exc, self |-> imp.self, modules |-> modules]
       ELSE [exc |-> IF name \notin DOMAIN flag_values.flags
                     THEN "UnrecognizedFlag" ELSE "",
             self |-> imp.self,
             modules |-> modules \cup {module_string}]

\* DECLARE(name, module_string, flag_values=FLAGS), with sys.modules.
DECLARE(name, module_string, flag_values, modules) ==
    LET imp == IF module_string \notin modules
               THEN import_defines(flag_values, ModuleFlags(module_string))
               ELSE [exc |-> "", self |-> flag_values]
    IN IF imp.exc # ""
       THEN [exc |-> imp.exc, self |-> imp.self, modules |-> modules]
       ELSE [exc |-> IF name \notin DOMAIN imp.self.flags
                     THEN "UnrecognizedFlag" ELSE "",
             self |-> imp.self,
             modules |-> modules \cup {module_string}]

\* ------------------------------------------------------------ threads
\* The threads that may call FLAGS(argv) at the same time.
Threads == {"t1", "t2"}
\* A thread that is in no call.
Idle == [pc |-> "idle", argv |-> <<>>, orig_getopt |-> Original]

\* -------------------------------------------------------------- state
VARIABLES
    FLAGS,          \* the module's registry object
    getopt,         \* the getopt module's two tokenizer attributes
    sys_modules,    \* the modules imported so far
    ret,            \* what the last Parse, read or DECLARE returned or raised
    last_argv,      \* the argv of the last Parse call that returned
    parse_values,   \* the flags, with their values, that call left registered
    threads         \* each thread's place in a FLAGS(argv) call it has entered

vars == <<FLAGS, getopt, sys_modules, ret, last_argv, parse_values, threads>>

Ret(op, name, exc, value) ==
    [op |-> op, name |-> name, exc |-> exc, value |-> value,
     args |-> <<>>, base_exc |-> "", replayed |-> FALSE, argv |-> <<>>]

\* Any other call: nothing returned that is looked at.
Called == Ret("call", "", "", Default)

\* The module as loaded: FLAGS = FlagValues(), then verbose defined.
Init ==
    /\ FLAGS = __setitem__(FlagValues, "verbose", Default).self
    /\ getopt = [a \in GetoptAttrs |-> Original]
    /\ sys_modules = {}
    /\ ret = Called
    /\ last_argv = <<>>
    /\ parse_values = NoFlags
    /\ threads = [t \in Threads |-> Idle]

\* args = FLAGS(argv)
Parse(argv) ==
    LET c == __call__(FLAGS, getopt, argv)
    IN /\ FLAGS' = c.self
       /\ getopt' = c.getopt
       /\ ret' = [Ret("Parse", "", c.exc, Default) EXCEPT
                     !.args = c.args, !.base_exc = c.base_exc]
       /\ last_argv' = IF c.exc = "" THEN argv ELSE last_argv
       /\ parse_values' = IF c.exc = "" THEN c.self.flags ELSE parse_values
       /\ UNCHANGED <<sys_modules, threads>>

\* DEFINE_integer(name, Default, help)
Define(name) ==
    LET r == __setitem__(FLAGS, name, Default)
    IN /\ FLAGS' = r.self
       /\ ret' = [Called EXCEPT !.exc = r.exc]
       /\ UNCHANGED <<getopt, sys_modules, last_argv, parse_values, threads>>

\* The read of a flag, through __getitem__ or __getattr__.
Read(g, name) ==
    /\ FLAGS' = g.self
    /\ getopt' = g.getopt
    /\ ret' = [Ret("read", name, g.exc, g.value) EXCEPT
                  !.replayed = g.replayed, !.argv = g.argv]
    /\ UNCHANGED <<sys_modules, last_argv, parse_values, threads>>

\* FLAGS[name].value
ReadItem(name) == Read(__getitem__(FLAGS, getopt, name), name)

\* FLAGS.name
ReadAttr(name) == Read(__getattr__(FLAGS, getopt, name), name)

\* FLAGS.UseGnuGetOpt(use_gnu_getopt), the base class's switch
UseGnuGetOpt(use_gnu_getopt) ==
    /\ FLAGS.use_gnu_getopt # use_gnu_getopt
    /\ FLAGS' = [FLAGS EXCEPT !.use_gnu_getopt = use_gnu_getopt]
    /\ ret' = Called
    /\ UNCHANGED <<getopt, sys_modules, last_argv, parse_values, threads>>

\* DECLARE(name, module_string)
Declare(name, module_string) ==
    LET d == DECLARE(name, module_string, FLAGS, sys_modules)
    IN /\ FLAGS' = d.self
       /\ sys_modules' = d.modules
       /\ ret' = Ret("DECLARE", name, d.exc, Default)
       /\ UNCHANGED <<getopt, last_argv, parse_values, threads>>

Next ==
    \/ \E argv \in Argvs : Parse(argv)
    \/ \E name \in LateNames : Define(name)
    \/ \E name \in FlagNames : ReadItem(name)
    \/ \E name \in FlagNames : ReadAttr(name)
    \/ \E b \in BOOLEAN : UseGnuGetOpt(b)

Spec == Init /\ [][Next]_vars

\* The same program on the longer command lines.
NextLong ==
    \/ \E argv \in LongArgvs : Parse(argv)
    \/ \E name \in LateNames : Define(name)
    \/ \E name \in LateNames : ReadAttr(name)
    \/ \E b \in BOOLEAN : UseGnuGetOpt(b)

SpecLong == Init /\ [][NextLong]_vars

\* The program that declares the flags of the modules it depends on.
NextDeclare ==
    \/ \E argv \in Argvs : Parse(argv)
    \/ \E name \in LateNames : Define(name)
    \/ \E name \in FlagNames, m \in Modules : Declare(name, m)

SpecDeclare == Init /\ [][NextDeclare]_vars

\* FLAGS.SetDirty(name)
MarkDirty(name) ==
    /\ Len(FLAGS.dirty) < MaxDirty
    /\ FLAGS' = SetDirty(FLAGS, name)
    /\ ret' = Ret("SetDirty", name, "", Default)
    /\ UNCHANGED <<getopt, sys_modules, last_argv, parse_values, threads>>

\* FLAGS.ClearDirty()
Clear ==
    /\ FLAGS' = ClearDirty(FLAGS)
    /\ ret' = Ret("ClearDirty", "", "", Default)
    /\ UNCHANGED <<getopt, sys_modules, last_argv, parse_values, threads>>

\* FLAGS.ParseNewFlags()
Reparse ==
    /\ FLAGS' = ParseNewFlags(FLAGS, getopt).self
    /\ getopt' = ParseNewFlags(FLAGS, getopt).getopt
    /\ ret' = [Ret("ParseNewFlags", "", ParseNewFlags(FLAGS, getopt).exc,
                   Default) EXCEPT
                  !.argv = ParseNewFlags(FLAGS, getopt).argv]
    /\ UNCHANGED <<sys_modules, last_argv, parse_values, threads>>

\* FLAGS.name = value
Assign(name, value) ==
    /\ FLAGS' = [FLAGS EXCEPT
                    !.flags = gflags_setattr(FLAGS.flags, name, value).fl]
    /\ ret' = Ret("setattr", name,
                  gflags_setattr(FLAGS.flags, name, value).exc, value)
    /\ UNCHANGED <<getopt, sys_modules, last_argv, parse_values, threads>>

\* The values the application assigns.
AssignedValues == {1}

\* The program that also calls the dirty-list methods and assigns flags.
NextOps ==
    \/ \E argv \in ShortArgvs : Parse(argv)
    \/ \E name \in LateNames : Define(name)
    \/ \E name \in LateNames : MarkDirty(name)
    \/ Clear
    \/ Reparse
    \/ \E name \in FlagNames : ReadAttr(name)
    \/ \E name \in LateNames, value \in AssignedValues : Assign(name, value)

SpecOps == Init /\ [][NextOps]_vars

\* FLAGS(argv) on a thread, in the three steps between which the other
\* thread may run.  Lines 52-60: the argv copied, the tokenizer looked up.
Enter(t, argv) ==
    /\ threads[t].pc = "idle"
    /\ threads' = [threads EXCEPT ![t] =
                      [pc |-> "saved", argv |-> argv,
                       orig_getopt |-> getopt[orig_name(FLAGS)]]]
    /\ UNCHANGED <<FLAGS, getopt, sys_modules, ret, last_argv, parse_values>>

\* Line 68: setattr(getopt, orig_name, _sneaky)
Patch(t) ==
    /\ threads[t].pc = "saved"
    /\ getopt' = [getopt EXCEPT ![orig_name(FLAGS)] = Sneaky]
    /\ threads' = [threads EXCEPT ![t].pc = "patched"]
    /\ UNCHANGED <<FLAGS, sys_modules, ret, last_argv, parse_values>>

\* Lines 69-91: the base parser called with the getopt module as it is now,
\* the except and finally clauses with the function this thread looked up,
\* and the end of the method.
Leave(t) ==
    /\ threads[t].pc = "patched"
    /\ LET c == after_base_call(
                    FLAGS,
                    [getopt EXCEPT ![orig_name(FLAGS)] = threads[t].orig_getopt],
                    threads[t].argv, getopt,
                    gflags_call(FLAGS.flags, FLAGS.use_gnu_getopt,
                                threads[t].argv, getopt, NoCapture))
       IN /\ FLAGS' = c.self
          /\ getopt' = c.getopt
          /\ ret' = [Ret("Parse", "", c.exc, Default) EXCEPT
                        !.args = c.args, !.base_exc = c.base_exc]
          /\ last_argv' = IF c.exc = "" THEN threads[t].argv ELSE last_argv
          /\ parse_values' = IF c.exc = "" THEN c.self.flags ELSE parse_values
    /\ threads' = [threads EXCEPT ![t] = Idle]
    /\ UNCHANGED sys_modules

\* The program whose threads call FLAGS(argv) with no lock.
NextThreads ==
    \/ \E t \in Threads, argv \in ShortArgvs : Enter(t, argv)
    \/ \E t \in Threads : Patch(t)
    \/ \E t \in Threads : Leave(t)

SpecThreads == Init /\ [][NextThreads]_vars

\* ------------------------------------------------------------- claims
\* What the claims say of a command line, read off the command line itself.
IsArg(t) == t.kind = "arg"
Named(argv, n) == SelectSeq(Rest(argv), LAMBDA t : t.kind = "opt" /\ t.name = n)
\* The tokens before the first positional argument.
RECURSIVE BeforeFirstArg(_)
BeforeFirstArg(args) ==
    IF args = <<>> \/ IsArg(Head(args)) THEN <<>>
    ELSE <<Head(args)>> \o BeforeFirstArg(Tail(args))
\* The tokens from the first positional argument on.
FromFirstArg(args) ==
    SubSeq(args, Len(BeforeFirstArg(args)) + 1, Len(args))
\* The number a token's text spells.
TextValue(s) == CASE s = "1" -> 1 [] s = "2" -> 2 [] OTHER -> -1

\* A read of a flag that was registered after the last Parse that returned.
ReadOfLateFlag ==
    /\ ret.op = "read"
    /\ ret.name \in DOMAIN FLAGS.flags
    /\ ret.name \notin DOMAIN parse_values
    /\ last_argv # <<>>

\* C1 as claimed: a flag registered after a Parse whose argv carries a value
\* for it reads as a value the command line gives it, whatever else argv
\* contains.
C1_LateFlagReadsArgvValue ==
    (ReadOfLateFlag /\ Named(last_argv, ret.name) # <<>>)
        => /\ ret.exc = ""
           /\ \E i \in 1..Len(Named(last_argv, ret.name)) :
                  ret.value = TextValue(Named(last_argv, ret.name)[i].val)

\* C2: a Parse whose base parse raises UnrecognizedFlagError returns.
C2_UnrecognizedFlagNeverFails ==
    (ret.op = "Parse" /\ ret.base_exc = "UnrecognizedFlagError") => ret.exc = ""

\* C2 witness: a Parse has returned although its base parse raised.
C2_Witness ==
    /\ ret.op = "Parse" /\ ret.base_exc = "UnrecognizedFlagError"
    /\ ret.exc = ""
    /\ last_argv = <<ProgName, Opt("future", "2"), Arg("extra1")>>

\* The tokens of argv that name no flag registered at the Parse.
Unrecognized(t) == t.kind = "opt" /\ t.name \notin DOMAIN parse_values

ParseReturned == ret.op = "Parse" /\ ret.exc = ""

\* C3 as claimed: Parse returns the program name, then the unrecognized flag
\* tokens and the positional arguments of argv in their order.
C3_LeftoverKeepsUnrecognized ==
    (ParseReturned /\ \E i \in 2..Len(last_argv) : Unrecognized(last_argv[i]))
        => ret.args = <<ProgName>> \o
               SelectSeq(Rest(last_argv), LAMBDA t : IsArg(t) \/ Unrecognized(t))

\* C3 amended: Parse returns the program name, then every token from the
\* first positional argument on in strict mode, the positional arguments in
\* GNU mode; an unrecognized flag token the tokenizer reaches is dropped.
C3_LeftoverFromTokenizer ==
    ParseReturned
        => ret.args = <<ProgName>> \o
               (IF FLAGS.use_gnu_getopt THEN SelectSeq(Rest(last_argv), IsArg)
                ELSE FromFirstArg(Rest(last_argv)))

\* C3 witness: the Parse of --future=2 extra1, future not registered, has
\* returned the program name and extra1.
C3_Witness ==
    /\ ParseReturned
    /\ last_argv = <<ProgName, Opt("future", "2"), Arg("extra1")>>
    /\ "future" \notin DOMAIN parse_values
    /\ ret.args = <<ProgName, Arg("extra1")>>

\* C4 as claimed: the read of a dirty flag leaves no flag dirty that was
\* dirty before it.
C4_DirtyClearsOnRead ==
    [][(ret'.op = "read" /\ ret'.replayed /\ ret'.exc = "")
           => \A n \in FlagNames : IsDirty(FLAGS, n) => ~IsDirty(FLAGS', n)]_vars

\* C5: between the calls, both tokenizer attributes of the getopt module
\* hold the original functions.
C5_TokenizerRestored == \A a \in GetoptAttrs : getopt[a] = Original

\* C5 witness: a Parse in GNU mode has propagated the error of a flag's
\* parser, and the tokenizers are the originals.
C5_Witness ==
    /\ ret.op = "Parse" /\ ret.exc = "IllegalFlagValue"
    /\ FLAGS.use_gnu_getopt
    /\ C5_TokenizerRestored

C7_ParseValuesSurviveReplay ==
    [][(ret'.op = "read" /\ ret'.replayed)
           => \A n \in DOMAIN parse_values :
                  FLAGS.flags[n] = parse_values[n]
                      => FLAGS'.flags[n] = parse_values[n]]_vars

\* C8: DECLARE raises UnrecognizedFlag exactly when the name is not in the
\* registry once the module is loaded, and returns when it is.
C8_DeclareContract ==
    (ret.op = "DECLARE" /\ ret.exc # "DuplicateFlag")
        => /\ Modules \subseteq sys_modules
           /\ ret.exc \in {"", "UnrecognizedFlag"}
           /\ (ret.exc = "UnrecognizedFlag") <=> (ret.name \notin DOMAIN FLAGS.flags)

\* C8 witness: DECLARE of other has raised, the module that defines future
\* loaded by it.
C8_Witness ==
    /\ ret.op = "DECLARE" /\ ret.name = "other"
    /\ ret.exc = "UnrecognizedFlag"
    /\ "glance.future" \in sys_modules
    /\ "future" \in DOMAIN FLAGS.flags

\* C9 as claimed: no name is dirty when a Parse has returned.
C9_ParseLeavesNoDirty ==
    ParseReturned => \A n \in FlagNames : ~IsDirty(FLAGS, n)

\* C10: the stored argv is the argv of the last Parse that returned, and a
\* replay parses that argv.
C10_StoredArgvIsLastArgv ==
    /\ FLAGS.stored_argv = last_argv
    /\ (ret.op = "read" /\ ret.replayed) => ret.argv = last_argv

\* C10 witness: after a second Parse, of another argv, a read has replayed
\* the second argv.
C10_Witness ==
    /\ ret.op = "read" /\ ret.replayed /\ ret.value = 2
    /\ ret.name \in DOMAIN parse_values
    /\ ret.argv = <<ProgName, Opt("future", "2")>>

\* C11: the registry is marked parsed exactly when some Parse has returned:
\* not when it is created, from the first Parse that returns on, and through
\* every later Parse, registration, read, replay and dirty-list call.
C11_ParsedOnceParseReturned ==
    FLAGS.was_already_parsed <=> (last_argv # <<>>)

\* C11 witness: the registry is still marked parsed after a replay that
\* followed the Parse and the registration of future.
C11_Witness ==
    /\ FLAGS.was_already_parsed
    /\ ret.op = "ParseNewFlags" /\ ret.exc = ""
    /\ FLAGS.dirty = <<"future">>
    /\ last_argv = <<ProgName, Opt("future", "2")>>
    /\ FLAGS.flags["future"] = 2

\* C12: the registration of a flag appends its name to the dirty list exactly
\* when the registry was already parsed; registered before the first Parse
\* the dirty list is left as it was.
C12_DirtyIffParsedAtRegistration ==
    [][\A n \in FlagNames :
           (n \notin DOMAIN FLAGS.flags /\ n \in DOMAIN FLAGS'.flags)
               => FLAGS'.dirty = IF FLAGS.was_already_parsed
                                 THEN Append(FLAGS.dirty, n)
                                 ELSE FLAGS.dirty]_vars

\* C12 witness: other, registered before the Parse, has been read with no
\* replay while future, registered after it, is dirty.
C12_Witness ==
    /\ ret.op = "read" /\ ret.name = "other" /\ ~ret.replayed
    /\ ret.exc = ""
    /\ "other" \in DOMAIN parse_values
    /\ "future" \in DOMAIN FLAGS.flags /\ "future" \notin DOMAIN parse_values
    /\ FLAGS.dirty = <<"future">>

\* C13 as claimed: ParseNewFlags on a registry that no Parse has stored an
\* argv in raises nothing and leaves the flag values, the dirty list, the
\* parsed mark and the stored argv as they were.
C13_ReparseBeforeParseIsNoOp ==
    [][(/\ ret'.op = "ParseNewFlags"
        /\ ~FLAGS.was_already_parsed /\ FLAGS.stored_argv = <<>>
        /\ last_argv = <<>>)
           => /\ ret'.exc = ""
              /\ FLAGS'.flags = FLAGS.flags
              /\ FLAGS'.dirty = FLAGS.dirty
              /\ FLAGS'.was_already_parsed = FLAGS.was_already_parsed
              /\ FLAGS'.stored_argv = FLAGS.stored_argv]_vars

\* C14: a Parse whose base parse raises another error than
\* UnrecognizedFlagError raises that same error.
C14_OtherErrorsPropagate ==
    (ret.op = "Parse" /\ ret.base_exc \notin {"", "UnrecognizedFlagError"})
        => ret.exc = ret.base_exc

\* C14 witness: a Parse in strict mode has raised the IllegalFlagValue of
\* other's parser, and nothing of the call was stored.
C14_Witness ==
    /\ ret.op = "Parse" /\ ret.base_exc = "IllegalFlagValue"
    /\ ret.exc = "IllegalFlagValue"
    /\ "other" \in DOMAIN FLAGS.flags
    /\ ~FLAGS.use_gnu_getopt
    /\ ~FLAGS.was_already_parsed /\ FLAGS.stored_argv = <<>>

\* C15 as claimed: every name of the dirty list is a registered flag.
C15_DirtyNamesAreFlags ==
    \A i \in 1..Len(FLAGS.dirty) : FLAGS.dirty[i] \in DOMAIN FLAGS.flags

\* C16: a replay, run by ParseNewFlags itself or by the read of a dirty flag,
\* leaves every flag that is not in the dirty list at its value, and the
\* sub-registry its first loop fills holds the dirty flags and no others.
C16_ReplayTouchesDirtyOnly ==
    [][(ret'.op = "ParseNewFlags" \/ (ret'.op = "read" /\ ret'.replayed))
           => /\ \A n \in DOMAIN FLAGS.flags :
                     ~IsDirty(FLAGS, n) => FLAGS'.flags[n] = FLAGS.flags[n]
              /\ copy_dirty(FLAGS, FLAGS.dirty, FlagValues).exc = ""
                     => DOMAIN copy_dirty(FLAGS, FLAGS.dirty,
                                          FlagValues).new_flags.flags
                            = {n \in FlagNames : IsDirty(FLAGS, n)}]_vars

\* C16 witness: ParseNewFlags has run with other dirty and has left future,
\* which the application set to 1, at 1 although the stored argv spells 2.
C16_Witness ==
    /\ ret.op = "ParseNewFlags" /\ ret.exc = ""
    /\ FLAGS.dirty = <<"other">>
    /\ "future" \in DOMAIN parse_values
    /\ FLAGS.flags["future"] = 1
    /\ ret.argv = <<ProgName, Opt("future", "2")>>

\* A list with every entry after the first of each name left out.
RECURSIVE Dedup(_)
Dedup(a) ==
    IF a = <<>> THEN <<>>
    ELSE <<Head(a)>> \o Dedup(SelectSeq(Tail(a), LAMBDA x : x # Head(a)))

\* C17 as claimed: the read of a registered flag that the dirty list of a
\* parsed registry names, once or more than once, returns or raises what it
\* would with each name listed once, and leaves the same flag values.
C17_DuplicateDirtyHarmless ==
    [][\A n \in FlagNames :
           (/\ ret'.op = "read" /\ ret'.name = n
            /\ FLAGS.was_already_parsed
            /\ n \in DOMAIN FLAGS.flags /\ IsDirty(FLAGS, n))
               => /\ ret'.exc =
                         __getattr__([FLAGS EXCEPT !.dirty = Dedup(FLAGS.dirty)],
                                     getopt, n).exc
                  /\ ret'.value =
                         __getattr__([FLAGS EXCEPT !.dirty = Dedup(FLAGS.dirty)],
                                     getopt, n).value
                  /\ FLAGS'.flags =
                         __getattr__([FLAGS EXCEPT !.dirty = Dedup(FLAGS.dirty)],
                                     getopt, n).self.flags]_vars

\* C18 as claimed: the read that follows the assignment of a value to a flag
\* registered after the Parse returns the value assigned.
C18_AssignedValueSurvivesRead ==
    [][(/\ ret.op = "setattr" /\ ret.exc = ""
        /\ ret.name \notin DOMAIN parse_values
        /\ last_argv # <<>>
        /\ ret'.op = "read" /\ ret'.name = ret.name)
           => (ret'.exc = "" /\ ret'.value = ret.value)]_vars

\* C19 as claimed: when no thread is inside a FLAGS(argv) call, both
\* tokenizer attributes of the getopt module hold the original functions.
C19_TokenizerRestoredAfterThreads ==
    (\A t \in Threads : threads[t].pc = "idle")
        => \A a \in GetoptAttrs : getopt[a] = Original

====
